---- MODULE Spec2Model ----
\* Model of app/routes/product_routes.js: the Express router for /products and
\* /favorites.  Every request is a small process: the middleware chain and the
\* synchronous part of the handler run when the request arrives, and every
\* document-store operation (find, findById, create, updateOne, deleteOne)
\* settles in a later step, so requests interleave at their store operations.
\* The promise callbacks chained after a settled operation run in one step:
\* no store operation of another request can settle between two microtasks.
EXTENDS Integers, Naturals, Sequences, FiniteSets, TLC

\* ---------------------------------------------------------------- bounds
MaxReq == 2          \* requests issued after the initial state
MaxProducts == 2     \* Product identifiers the store can hand out
MaxFavorites == 2    \* Favorite identifiers the store can hand out

\* ---------------------------------------------------------------- values
Users == {"u1", "u2"}
NoToken == "none"
Tokens == Users \cup {NoToken}
Categories == {"tools", "toys"}
Absent == "absent"
Blank == ""
ProductIds == 1..MaxProducts
FavoriteIds == 1..MaxFavorites

VARIABLES products, favorites, nextProductId, nextFavoriteId,
          reqs, productCreator, favoriteCreator

vars == <<products, favorites, nextProductId, nextFavoriteId,
          reqs, productCreator, favoriteCreator>>

store == <<products, favorites>>

\* --------------------------------------------- lib/ helpers and middleware

\* customErrors.handle404: an absent lookup result is a NotFound failure.
handle404(found) == IF found THEN "ok" ELSE "NotFound"

\* customErrors.requireOwnership: the requester must be the owner.
requireOwnership(user, doc) == IF doc.owner = user THEN "ok" ELSE "Forbidden"

\* lib/remove_blank_fields: drops the keys whose value is the empty string.
\* Values that are not strings (the product reference) are left untouched.
removeBlanks(body) ==
  [body EXCEPT !.owner = IF @ = Blank THEN Absent ELSE @,
               !.category = IF @ = Blank THEN Absent ELSE @]

\* passport.authenticate('bearer'): passes only a request with a valid token.
requireToken(token) == token \in Users

\* Which routes carry requireToken in their middleware chain.
DeleteProductUnprotected(kind) ==
  kind \in {"PostProduct", "PatchProduct", "PostFavorite", "DeleteFavorite"}
RequiresToken(kind) ==
  kind \in {"PostProduct", "PatchProduct", "DeleteProduct",
            "PostFavorite", "DeleteFavorite"}

\* `req.body.product.owner = req.user.id` / `req.body.favorite.owner = ...`
OwnerFromPayload(body, user) ==
  IF body.owner = Absent THEN [body EXCEPT !.owner = user] ELSE body
ForceOwner(body, user) == [body EXCEPT !.owner = user]

\* `delete req.body.product.owner`
KeepOwnerField(body) == body
StripOwner(body) == [body EXCEPT !.owner = Absent]

\* ------------------------------------------------- document-store queries

\* toObject of a stored Product / Favorite, with its _id.
ProductObject(id) ==
  [id |-> id, owner |-> products[id].owner, category |-> products[id].category]
FavoriteObject(id) ==
  [id |-> id, owner |-> favorites[id].owner, product |-> favorites[id].product]

\* Product.find() and Product.find({category: category})
FindAllProducts == {ProductObject(id) : id \in DOMAIN products}
FindIgnoringCategory(category) == {ProductObject(id) : id \in DOMAIN products}
FindByCategory(category) ==
  {ProductObject(id) : id \in {i \in DOMAIN products : products[i].category = category}}

\* Favorite.find({})
FindAllFavorites == {FavoriteObject(id) : id \in DOMAIN favorites}

\* product.updateOne(fields): sets the fields the payload carries on the
\* document with that _id, and matches nothing when it is gone.
ApplyUpdate(doc, body) ==
  [owner |-> IF body.owner # Absent THEN body.owner ELSE doc.owner,
   category |-> IF body.category # Absent THEN body.category ELSE doc.category]

\* doc.deleteOne() removes the document with that _id and only that one.
RemoveMany(f, id) == [i \in {} |-> f[i]]
Remove(f, id) == [i \in (DOMAIN f) \ {id} |-> f[i]]
Insert(f, id, doc) == [i \in (DOMAIN f) \cup {id} |-> IF i = id THEN doc ELSE f[i]]

\* ------------------------------------------------------------- requests
EmptyBody == [owner |-> Absent, category |-> Absent, product |-> 0]

\* A request as it enters the router.  mutation is the state of the write the
\* handler issues (updateOne / deleteOne): none, pending, done or failed.
\* user is req.user, which only requireToken sets; sentOwner is the owner field
\* of the payload as the client sent it; body is req.body as the handler
\* leaves it.
Request(kind, user, id, category, body) ==
  [kind |-> kind, user |-> user, id |-> id, category |-> category,
   sentOwner |-> body.owner, body |-> body, pc |-> "routed", status |-> 0,
   err |-> "none", out |-> {}, mutation |-> "none", late |-> FALSE]

\* res.status(code).json(out) / res.sendStatus(code)
Respond(r, code, out) == [r EXCEPT !.pc = "done", !.status = code, !.out = out]
\* .catch(next)
Forward(r, e) == [r EXCEPT !.pc = "done", !.err = e]

\* requireToken answers 401 itself and the handler never runs.
Rejected(kind, token) == RequiresToken(kind) /\ ~requireToken(token)
Reject(r) ==
  [r EXCEPT !.pc = "done", !.status = 401, !.user = NoToken,
            !.body = EmptyBody, !.sentOwner = Absent]

CanArrive == Len(reqs) < MaxReq
Arrive(r) == reqs' = Append(reqs, r)
Settle(i, r) == reqs' = [reqs EXCEPT ![i] = r]

\* A DELETE /favorites/:id for this id has already been answered 204.
Answered204(id) ==
  \E j \in 1..Len(reqs) :
    reqs[j].kind = "DeleteFavorite" /\ reqs[j].id = id /\ reqs[j].status = 204

\* ---------------------------------------------------- promise callbacks
\* GET /products/:id, lines 71-73: handle404, then 200 with the product.
ShowUnchecked(r, found, obj) ==
  IF found THEN Respond(r, 200, {obj}) ELSE Respond(r, 200, {})
ShowCallback(r, found, obj) ==
  IF handle404(found) = "NotFound" THEN Forward(r, "NotFound")
  ELSE Respond(r, 200, {obj})

\* PATCH /products/:id, lines 103-111: handle404, requireOwnership, and the
\* returned product.updateOne(...) that the chain waits for.
PatchUnguarded(r, found, doc) ==
  IF handle404(found) = "NotFound" THEN Forward(r, "NotFound")
  ELSE [r EXCEPT !.pc = "updateOne", !.mutation = "pending"]
PatchCallback(r, found, doc) ==
  IF handle404(found) = "NotFound" THEN Forward(r, "NotFound")
  ELSE IF requireOwnership(r.user, doc) = "Forbidden" THEN Forward(r, "Forbidden")
  ELSE [r EXCEPT !.pc = "updateOne", !.mutation = "pending"]

\* DELETE, lines 122-130 and 176-184: handle404, requireOwnership, then
\* doc.deleteOne() is started and its promise dropped, so the next callback,
\* res.sendStatus(204), runs at once.
DeleteCallback(r, found, doc) ==
  IF handle404(found) = "NotFound" THEN Forward(r, "NotFound")
  ELSE IF requireOwnership(r.user, doc) = "Forbidden" THEN Forward(r, "Forbidden")
  ELSE Respond([r EXCEPT !.mutation = "pending"], 204, {})

\* The document a findById resolved to; NoDoc stands for null.
NoDoc == [owner |-> Absent]
Lookup(f, id) == IF id \in DOMAIN f THEN f[id] ELSE NoDoc

\* ------------------------------------------------------------------ Init
ProductDocs == [owner : Users, category : Categories]
FavoriteDocs == [owner : Users, product : ProductIds]

Init ==
  /\ nextProductId \in 1..MaxProducts
  /\ nextFavoriteId \in 1..MaxFavorites
  /\ \E live \in SUBSET (1..(nextProductId - 1)) : products \in [live -> ProductDocs]
  /\ \E live \in SUBSET (1..(nextFavoriteId - 1)) : favorites \in [live -> FavoriteDocs]
  /\ productCreator = [i \in DOMAIN products |-> products[i].owner]
  /\ favoriteCreator = [i \in DOMAIN favorites |-> favorites[i].owner]
  /\ reqs = << >>

\* ------------------------------------------------ GET /products (33-45)
GetProducts ==
  /\ CanArrive
  /\ \E token \in Tokens :
       Arrive([Request("GetProducts", NoToken, 0, Absent, EmptyBody) EXCEPT !.pc = "find"])
  /\ UNCHANGED <<products, favorites, nextProductId, nextFavoriteId,
                 productCreator, favoriteCreator>>

ProductsFound ==
  /\ \E i \in 1..Len(reqs) :
       /\ reqs[i].kind = "GetProducts" /\ reqs[i].pc = "find"
       /\ \/ Settle(i, Respond(reqs[i], 200, FindAllProducts))
          \/ Settle(i, Forward(reqs[i], "DbError"))
  /\ UNCHANGED <<products, favorites, nextProductId, nextFavoriteId,
                 productCreator, favoriteCreator>>

\* ------------------------------- GET /products/category/:category (49-62)
GetProductsByCategory ==
  /\ CanArrive
  /\ \E token \in Tokens, category \in Categories :
       Arrive([Request("GetProductsByCategory", NoToken, 0, category, EmptyBody)
                 EXCEPT !.pc = "find"])
  /\ UNCHANGED <<products, favorites, nextProductId, nextFavoriteId,
                 productCreator, favoriteCreator>>

CategoryFound ==
  /\ \E i \in 1..Len(reqs) :
       /\ reqs[i].kind = "GetProductsByCategory" /\ reqs[i].pc = "find"
       /\ \/ Settle(i, Respond(reqs[i], 200, FindByCategory(reqs[i].category)))
          \/ Settle(i, Forward(reqs[i], "DbError"))
  /\ UNCHANGED <<products, favorites, nextProductId, nextFavoriteId,
                 productCreator, favoriteCreator>>

\* ------------------------------------------- GET /products/:id (67-76)
\* .populate('owner') replaces the stored owner id by the user record.
Populated(obj) == [obj EXCEPT !.owner = [id |-> obj.owner]]

GetProduct ==
  /\ CanArrive
  /\ \E token \in Tokens, id \in ProductIds :
       Arrive([Request("GetProduct", NoToken, id, Absent, EmptyBody) EXCEPT !.pc = "findById"])
  /\ UNCHANGED <<products, favorites, nextProductId, nextFavoriteId,
                 productCreator, favoriteCreator>>

ProductFound ==
  /\ \E i \in 1..Len(reqs) :
       /\ reqs[i].kind = "GetProduct" /\ reqs[i].pc = "findById"
       /\ \/ Settle(i, Forward(reqs[i], "DbError"))
          \/ Settle(i, ShowCallback(reqs[i], reqs[i].id \in DOMAIN products,
                                    IF reqs[i].id \in DOMAIN products
                                    THEN Populated(ProductObject(reqs[i].id))
                                    ELSE NoDoc))
  /\ UNCHANGED <<products, favorites, nextProductId, nextFavoriteId,
                 productCreator, favoriteCreator>>

\* ----------------------------------------------- POST /products (80-93)
PostProductBodies ==
  [owner : Users \cup {Absent}, category : Categories, product : {0}]

PostProduct ==
  /\ CanArrive
  /\ \E token \in Tokens, body \in PostProductBodies :
       LET q == Request("PostProduct", token, 0, Absent, body) IN
       \/ /\ Rejected("PostProduct", token)
          /\ Arrive(Reject(q))
          /\ UNCHANGED nextProductId
       \/ /\ ~Rejected("PostProduct", token)
          /\ nextProductId <= MaxProducts
          /\ Arrive([q EXCEPT !.body = ForceOwner(body, token),
                              !.id = nextProductId, !.pc = "create"])
          /\ nextProductId' = nextProductId + 1
  /\ UNCHANGED <<products, favorites, nextFavoriteId, productCreator, favoriteCreator>>

ProductCreated ==
  /\ \E i \in 1..Len(reqs) :
       /\ reqs[i].kind = "PostProduct" /\ reqs[i].pc = "create"
       /\ \/ LET doc == [owner |-> reqs[i].body.owner,
                         category |-> reqs[i].body.category] IN
             /\ products' = Insert(products, reqs[i].id, doc)
             /\ productCreator' = Insert(productCreator, reqs[i].id, reqs[i].user)
             /\ Settle(i, Respond(reqs[i], 201,
                     {[id |-> reqs[i].id, owner |-> doc.owner, category |-> doc.category]}))
          \/ /\ Settle(i, Forward(reqs[i], "DbError"))
             /\ UNCHANGED <<products, productCreator>>
  /\ UNCHANGED <<favorites, nextProductId, nextFavoriteId, favoriteCreator>>

\* -------------------------------------------- PATCH /products/:id (97-116)
PatchProductBodies ==
  [owner : Users \cup {Absent}, category : Categories \cup {Absent, Blank},
   product : {0}]

PatchProduct ==
  /\ CanArrive
  /\ \E token \in Tokens, id \in ProductIds, body \in PatchProductBodies :
       LET q == Request("PatchProduct", token, id, Absent, body) IN
       IF Rejected("PatchProduct", token)
       THEN Arrive(Reject(q))
       ELSE Arrive([q EXCEPT !.body = StripOwner(removeBlanks(body)),
                             !.pc = "findById"])
  /\ UNCHANGED <<products, favorites, nextProductId, nextFavoriteId,
                 productCreator, favoriteCreator>>

PatchFound ==
  /\ \E i \in 1..Len(reqs) :
       /\ reqs[i].kind = "PatchProduct" /\ reqs[i].pc = "findById"
       /\ \/ Settle(i, Forward(reqs[i], "DbError"))
          \/ Settle(i, PatchCallback(reqs[i], reqs[i].id \in DOMAIN products,
                                     Lookup(products, reqs[i].id)))
  /\ UNCHANGED <<products, favorites, nextProductId, nextFavoriteId,
                 productCreator, favoriteCreator>>

PatchUpdated ==
  /\ \E i \in 1..Len(reqs) :
       /\ reqs[i].kind = "PatchProduct" /\ reqs[i].pc = "updateOne"
       /\ \/ /\ products' =
                  IF reqs[i].id \in DOMAIN products
                  THEN [products EXCEPT ![reqs[i].id] = ApplyUpdate(@, reqs[i].body)]
                  ELSE products
             /\ Settle(i, Respond([reqs[i] EXCEPT !.mutation = "done"], 204, {}))
          \/ /\ Settle(i, Forward([reqs[i] EXCEPT !.mutation = "failed"], "DbError"))
             /\ UNCHANGED products
  /\ UNCHANGED <<favorites, nextProductId, nextFavoriteId, productCreator, favoriteCreator>>

\* ------------------------------------------ DELETE /products/:id (120-133)
\* product.deleteOne() is started inside the callback and its promise is not
\* returned: the chain goes on to sendStatus(204) while the delete is pending.
DeleteProduct ==
  /\ CanArrive
  /\ \E token \in Tokens, id \in ProductIds :
       LET q == Request("DeleteProduct", token, id, Absent, EmptyBody) IN
       IF Rejected("DeleteProduct", token)
       THEN Arrive(Reject(q))
       ELSE Arrive([q EXCEPT !.pc = "findById"])
  /\ UNCHANGED <<products, favorites, nextProductId, nextFavoriteId,
                 productCreator, favoriteCreator>>

DeleteProductFound ==
  /\ \E i \in 1..Len(reqs) :
       /\ reqs[i].kind = "DeleteProduct" /\ reqs[i].pc = "findById"
       /\ \/ Settle(i, Forward(reqs[i], "DbError"))
          \/ Settle(i, DeleteCallback(reqs[i], reqs[i].id \in DOMAIN products,
                                      Lookup(products, reqs[i].id)))
  /\ UNCHANGED <<products, favorites, nextProductId, nextFavoriteId,
                 productCreator, favoriteCreator>>

\* The pending product.deleteOne() settles; a rejection reaches no handler.
ProductDeleteSettled ==
  /\ \E i \in 1..Len(reqs) :
       /\ reqs[i].kind = "DeleteProduct" /\ reqs[i].mutation = "pending"
       /\ \/ /\ products' = Remove(products, reqs[i].id)
             /\ Settle(i, [reqs[i] EXCEPT !.mutation = "done"])
          \/ /\ Settle(i, [reqs[i] EXCEPT !.mutation = "failed"])
             /\ UNCHANGED products
  /\ UNCHANGED <<favorites, nextProductId, nextFavoriteId, productCreator, favoriteCreator>>

\* ------------------------------------------------ GET /favorites (141-155)
\* .populate('product') replaces the reference by the Product, or by null
\* (here: the empty set) when that Product is gone.
PopulatedFavorite(obj) ==
  [id |-> obj.id, owner |-> [id |-> obj.owner],
   product |-> IF obj.product \in DOMAIN products
               THEN {ProductObject(obj.product)} ELSE {}]

GetFavorites ==
  /\ CanArrive
  /\ \E token \in Tokens :
       Arrive([Request("GetFavorites", NoToken, 0, Absent, EmptyBody) EXCEPT !.pc = "find"])
  /\ UNCHANGED <<products, favorites, nextProductId, nextFavoriteId,
                 productCreator, favoriteCreator>>

FavoritesFound ==
  /\ \E i \in 1..Len(reqs) :
       /\ reqs[i].kind = "GetFavorites" /\ reqs[i].pc = "find"
       /\ \/ Settle(i, Respond(reqs[i], 200,
                               {PopulatedFavorite(f) : f \in FindAllFavorites}))
          \/ Settle(i, Forward(reqs[i], "DbError"))
  /\ UNCHANGED <<products, favorites, nextProductId, nextFavoriteId,
                 productCreator, favoriteCreator>>

\* ----------------------------------------------- POST /favorites (157-171)
PostFavoriteBodies ==
  [owner : Users \cup {Absent}, category : {Absent}, product : ProductIds]

PostFavorite ==
  /\ CanArrive
  /\ \E token \in Tokens, body \in PostFavoriteBodies :
       LET q == Request("PostFavorite", token, 0, Absent, body) IN
       \/ /\ Rejected("PostFavorite", token)
          /\ Arrive(Reject(q))
          /\ UNCHANGED nextFavoriteId
       \/ /\ ~Rejected("PostFavorite", token)
          /\ nextFavoriteId <= MaxFavorites
          /\ Arrive([q EXCEPT !.body = ForceOwner(body, token),
                              !.id = nextFavoriteId, !.pc = "create"])
          /\ nextFavoriteId' = nextFavoriteId + 1
  /\ UNCHANGED <<products, favorites, nextProductId, productCreator, favoriteCreator>>

FavoriteCreated ==
  /\ \E i \in 1..Len(reqs) :
       /\ reqs[i].kind = "PostFavorite" /\ reqs[i].pc = "create"
       /\ \/ LET doc == [owner |-> reqs[i].body.owner,
                         product |-> reqs[i].body.product] IN
             /\ favorites' = Insert(favorites, reqs[i].id, doc)
             /\ favoriteCreator' = Insert(favoriteCreator, reqs[i].id, reqs[i].user)
             /\ Settle(i, Respond(reqs[i], 201,
                     {[id |-> reqs[i].id, owner |-> doc.owner, product |-> doc.product]}))
          \/ /\ Settle(i, Forward(reqs[i], "DbError"))
             /\ UNCHANGED <<favorites, favoriteCreator>>
  /\ UNCHANGED <<products, nextProductId, nextFavoriteId, productCreator>>

\* ------------------------------------------ DELETE /favorites/:id (174-187)
DeleteFavorite ==
  /\ CanArrive
  /\ \E token \in Tokens, id \in FavoriteIds :
       LET q == [Request("DeleteFavorite", token, id, Absent, EmptyBody)
                   EXCEPT !.late = Answered204(id)] IN
       IF Rejected("DeleteFavorite", token)
       THEN Arrive(Reject(q))
       ELSE Arrive([q EXCEPT !.pc = "findById"])
  /\ UNCHANGED <<products, favorites, nextProductId, nextFavoriteId,
                 productCreator, favoriteCreator>>

DeleteFavoriteFound ==
  /\ \E i \in 1..Len(reqs) :
       /\ reqs[i].kind = "DeleteFavorite" /\ reqs[i].pc = "findById"
       /\ \/ Settle(i, Forward(reqs[i], "DbError"))
          \/ Settle(i, DeleteCallback(reqs[i], reqs[i].id \in DOMAIN favorites,
                                      Lookup(favorites, reqs[i].id)))
  /\ UNCHANGED <<products, favorites, nextProductId, nextFavoriteId,
                 productCreator, favoriteCreator>>

\* The pending favorite.deleteOne() settles; a rejection reaches no handler.
FavoriteDeleteSettled ==
  /\ \E i \in 1..Len(reqs) :
       /\ reqs[i].kind = "DeleteFavorite" /\ reqs[i].mutation = "pending"
       /\ \/ /\ favorites' = Remove(favorites, reqs[i].id)
             /\ Settle(i, [reqs[i] EXCEPT !.mutation = "done"])
          \/ /\ Settle(i, [reqs[i] EXCEPT !.mutation = "failed"])
             /\ UNCHANGED favorites
  /\ UNCHANGED <<products, nextProductId, nextFavoriteId, productCreator, favoriteCreator>>

\* ------------------------------------------------------------------ Spec
Next ==
  \/ GetProducts \/ ProductsFound
  \/ GetProductsByCategory \/ CategoryFound
  \/ GetProduct \/ ProductFound
  \/ PostProduct \/ ProductCreated
  \/ PatchProduct \/ PatchFound \/ PatchUpdated
  \/ DeleteProduct \/ DeleteProductFound \/ ProductDeleteSettled
  \/ GetFavorites \/ FavoritesFound
  \/ PostFavorite \/ FavoriteCreated
  \/ DeleteFavorite \/ DeleteFavoriteFound \/ FavoriteDeleteSettled

Spec == Init /\ [][Next]_vars

\* ---------------------------------------------------------------- claims
MutatingKinds ==
  {"PostProduct", "PatchProduct", "DeleteProduct", "PostFavorite", "DeleteFavorite"}
GetKinds == {"GetProducts", "GetProductsByCategory", "GetProduct", "GetFavorites"}
GuardedKinds == {"PatchProduct", "DeleteProduct", "DeleteFavorite"}

\* This step is a step of request i.
Stepped(i) == i \in 1..Len(reqs) /\ reqs'[i] # reqs[i]

\* The collection a request's :id addresses.
Collection(r) == IF r.kind = "DeleteFavorite" THEN favorites ELSE products

NonOwnerForbidden ==
  [][\A i \in 1..Len(reqs) :
       /\ ( /\ reqs[i].kind \in GuardedKinds
            /\ reqs[i].pc = "findById"
            /\ Stepped(i)
            /\ reqs[i].id \in DOMAIN Collection(reqs[i])
            /\ Collection(reqs[i])[reqs[i].id].owner # reqs[i].user )
          => /\ reqs'[i].pc = "done"
             /\ reqs'[i].err \in {"Forbidden", "DbError"}
             /\ reqs'[i].status = 0
             /\ reqs'[i].mutation = "none"
             /\ store' = store
       /\ reqs[i].err = "Forbidden" => reqs'[i] = reqs[i]
    ]_vars

\* A non-owner's PATCH with a payload ended Forbidden and the product is there.
NonOwnerPatchRefused ==
  \E i \in 1..Len(reqs) :
    /\ reqs[i].kind = "PatchProduct" /\ reqs[i].err = "Forbidden"
    /\ reqs[i].body.category \in Categories
    /\ reqs[i].id \in DOMAIN products
    /\ products[reqs[i].id].owner # reqs[i].user
    /\ products[reqs[i].id].category # reqs[i].body.category

\* C3: the step that answers a POST /products or POST /favorites with 201
\* stores a new resource under a fresh id, owned by the requester whatever
\* owner the payload named, and the response carries exactly that resource.
PostCreatesOwned ==
  [][\A i \in 1..Len(reqs) :
       (reqs[i].pc = "create" /\ reqs'[i].status = 201) =>
         LET r == reqs[i] IN
         /\ r.user \in Users
         /\ IF r.kind = "PostProduct"
            THEN /\ r.id \notin DOMAIN products
                 /\ r.id \in DOMAIN products'
                 /\ products'[r.id].owner = r.user
                 /\ reqs'[i].out = {[id |-> r.id, owner |-> r.user,
                                     category |-> products'[r.id].category]}
            ELSE /\ r.id \notin DOMAIN favorites
                 /\ r.id \in DOMAIN favorites'
                 /\ favorites'[r.id].owner = r.user
                 /\ reqs'[i].out = {[id |-> r.id, owner |-> r.user,
                                     product |-> favorites'[r.id].product]}
    ]_vars

\* A POST whose payload named the other user as owner was answered 201.
PostWithForeignOwnerCreated ==
  \E i \in 1..Len(reqs) :
    /\ reqs[i].kind \in {"PostProduct", "PostFavorite"}
    /\ reqs[i].status = 201
    /\ reqs[i].sentOwner \in Users \ {reqs[i].user}

\* C4: a request to a mutating route without a valid token is answered 401 on
\* arrival, runs no handler step and issues no write; every change of the
\* store is a step of a request made with a valid token; and no GET route
\* answers 401, although none of them sees a token.
TokenGate ==
  [][/\ \A i \in 1..Len(reqs') :
          LET r == reqs'[i] IN
          /\ (r.kind \in MutatingKinds /\ r.user \notin Users) =>
               /\ r.pc = "done" /\ r.status = 401 /\ r.err = "none"
               /\ r.mutation = "none" /\ r.out = {}
          /\ r.kind \in GetKinds => (r.user = NoToken /\ r.status \in {0, 200})
     /\ store' # store =>
          \E i \in 1..Len(reqs) : Stepped(i) /\ reqs[i].user \in Users
    ]_vars

\* A DELETE without a token on a stored product was answered 401, a GET was
\* answered 200, and the product is still stored.
TokenlessDeleteRejected ==
  \E i, j \in 1..Len(reqs) :
    /\ reqs[i].kind = "DeleteProduct" /\ reqs[i].status = 401
    /\ reqs[i].id \in DOMAIN products
    /\ reqs[j].kind = "GetProduct" /\ reqs[j].status = 200

\* C5: every failure in a handler's pipeline, the update and delete calls
\* included, is forwarded to next and no success response is sent for that
\* request; a finished request has either a success response or one forwarded
\* error.
FailuresForwarded ==
  \A i \in 1..Len(reqs) :
    /\ reqs[i].mutation = "failed" => (reqs[i].err = "DbError" /\ reqs[i].status = 0)
    /\ reqs[i].pc = "done" => ((reqs[i].status # 0) # (reqs[i].err # "none"))

\* C6: a 204 from PATCH /products/:id, DELETE /products/:id or
\* DELETE /favorites/:id is sent only after the update or delete has completed.
RespondAfterMutation ==
  \A i \in 1..Len(reqs) :
    (reqs[i].kind \in GuardedKinds /\ reqs[i].status = 204) => reqs[i].mutation = "done"

\* C7: a DELETE /favorites/:id that arrives with a valid token after a DELETE
\* of the same id was answered 204 ends NotFound and not 204 (unless its own
\* lookup fails in the database).
DeletedFavoriteNotFound ==
  \A i \in 1..Len(reqs) :
    ( /\ reqs[i].kind = "DeleteFavorite" /\ reqs[i].late
      /\ reqs[i].user \in Users /\ reqs[i].pc = "done"
      /\ reqs[i].err # "DbError" )
    => (reqs[i].err = "NotFound" /\ reqs[i].status # 204)

\* C8: when the lookup of GET /products/:id succeeds in the database, a stored
\* product is answered 200 with its id, its category and its owner, and an id
\* that matches no stored product is forwarded as NotFound with no response;
\* the store is unchanged either way.
ShowReturnsStored ==
  [][\A i \in 1..Len(reqs) :
       (reqs[i].kind = "GetProduct" /\ reqs[i].pc = "findById" /\ Stepped(i)) =>
         LET r == reqs[i] IN
         /\ store' = store
         /\ reqs'[i].pc = "done"
         /\ reqs'[i].err # "DbError" =>
              IF r.id \in DOMAIN products
              THEN /\ reqs'[i].status = 200 /\ reqs'[i].err = "none"
                   /\ reqs'[i].out = {[id |-> r.id,
                                       owner |-> [id |-> products[r.id].owner],
                                       category |-> products[r.id].category]}
              ELSE /\ reqs'[i].err = "NotFound" /\ reqs'[i].status = 0
                   /\ reqs'[i].out = {}
    ]_vars

\* Both cases happened: a stored product was shown and a missing id was NotFound.
ShownAndMissing ==
  \E i, j \in 1..Len(reqs) :
    /\ reqs[i].kind = "GetProduct" /\ reqs[i].status = 200 /\ reqs[i].out # {}
    /\ reqs[j].kind = "GetProduct" /\ reqs[j].err = "NotFound"

\* C9: when its find succeeds, GET /products/category/c answers 200 with
\* exactly the stored products whose category is c, and GET /products with all
\* stored products; neither changes the store.
ListsAreExact ==
  [][\A i \in 1..Len(reqs) :
       ( /\ reqs[i].kind \in {"GetProducts", "GetProductsByCategory"}
         /\ reqs[i].pc = "find" /\ Stepped(i) ) =>
         LET r == reqs[i]
             wanted == {id \in DOMAIN products :
                          r.kind = "GetProductsByCategory" =>
                            products[id].category = r.category}
         IN
         /\ store' = store
         /\ reqs'[i].pc = "done"
         /\ reqs'[i].err # "DbError" =>
              /\ reqs'[i].status = 200 /\ reqs'[i].err = "none"
              /\ reqs'[i].out = {[id |-> id, owner |-> products[id].owner,
                                  category |-> products[id].category] : id \in wanted}
    ]_vars

\* A category listing was answered with a product while the store holds a
\* product of another category.
CategoryListingFiltered ==
  \E i \in 1..Len(reqs) :
    /\ reqs[i].kind = "GetProductsByCategory" /\ reqs[i].status = 200
    /\ reqs[i].out # {}
    /\ \A o \in reqs[i].out : o.id \in DOMAIN products
    /\ \E id \in DOMAIN products : products[id].category # reqs[i].category

\* C10: a step changes or removes a Product only if it is a step of a POST,
\* PATCH or DELETE /products request addressed to that id, and a Favorite only
\* if it is a step of a POST or DELETE /favorites request addressed to that
\* id; so deleting a Product leaves the Favorites that reference it, and the
\* steps of GET requests and arrivals leave the store as it is.
FrameOfWrites ==
  [][/\ \A id \in ProductIds :
          ( (id \in DOMAIN products) # (id \in DOMAIN products')
            \/ (id \in DOMAIN products /\ id \in DOMAIN products'
                /\ products'[id] # products[id]) )
          => \E i \in 1..Len(reqs) :
               /\ Stepped(i) /\ reqs[i].id = id
               /\ reqs[i].kind \in {"PostProduct", "PatchProduct", "DeleteProduct"}
     /\ \A id \in FavoriteIds :
          ( (id \in DOMAIN favorites) # (id \in DOMAIN favorites')
            \/ (id \in DOMAIN favorites /\ id \in DOMAIN favorites'
                /\ favorites'[id] # favorites[id]) )
          => \E i \in 1..Len(reqs) :
               /\ Stepped(i) /\ reqs[i].id = id
               /\ reqs[i].kind \in {"PostFavorite", "DeleteFavorite"}
    ]_vars

\* A Product was deleted while another Product and a Favorite that references
\* the deleted one are still stored.
DeletedProductLeavesFavorite ==
  \E i \in 1..Len(reqs) :
    /\ reqs[i].kind = "DeleteProduct" /\ reqs[i].mutation = "done"
    /\ reqs[i].id \notin DOMAIN products
    /\ \E p \in DOMAIN products : p # reqs[i].id
    /\ \E f \in DOMAIN favorites : favorites[f].product = reqs[i].id
====
